---- MODULE Spec2Model ----
(***************************************************************************)
(* The HabitTracker component (a React client over two remote tables,      *)
(* habits and habit_entries, and an auth provider) as a state machine.     *)
(*                                                                         *)
(* Every handler of the component is asynchronous: it runs up to an await, *)
(* the request travels to the store, the store applies it, the response    *)
(* travels back and the handler's continuation runs.  A request in flight  *)
(* is a record of the bag `tasks`; the captured closure values of the      *)
(* handler (what it computed before the await) are fields of the record.   *)
(* A write is applied by the store and continued by the client in one      *)
(* step.  The select on habits is answered in one step and continued in    *)
(* another (phase "req", then "resp"): its rows can be out of date when    *)
(* the continuation reads them.                                            *)
(*                                                                         *)
(* The supabase client resolves a table call with {data, error}; it does   *)
(* not reject.  A call the store refuses therefore reaches a catch block   *)
(* only where the code tests `error` and throws it itself.                 *)
(***************************************************************************)
EXTENDS Integers, Sequences, FiniteSets, Bags, TLC

\* ------------------------------------------------------------------ bounds

\* Batches of habit rows the store ever generates identifiers for.
MaxBatches == 2

\* Requests in flight at one time.
MaxInFlight == 2

\* The cells the user clicks: rows of the grid (positions in the habit list)
\* and columns.
ToggleRows == {1}
ToggleDays == {"Monday"}

\* What the user types into the name inputs: <<input, value>>, the value a
\* sequence of characters.  The last input is the one left blank, filled with
\* white space only, or filled with a padded name.
Edits ==
    {<<i, <<"a">>>> : i \in 1..4} \cup {<<5, << >>>>, <<5, <<" ">>>>, <<5, <<" ", "b", " ">>>>}

\* ------------------------------------------------------- program constants

DAYS == <<"Monday", "Tuesday", "Wednesday", "Thursday", "Friday", "Saturday", "Sunday">>

\* The five name inputs, and the count handleOnboardingSubmit asks for.
NumHabits == 5

\* useState(['', '', '', '', ''])
BlankInputs == [i \in 1..NumHabits |-> << >>]

NoUser == "null"
U1 == "u1"

\* useState('') for weekStartDate: no date yet.
NoDate == -1

\* new Date(): the day the sessions run on, as a day number (day 0 a Sunday).
Today == 10

\* useState<HabitTracker>({})
EmptyTracker == [h \in {} |-> [d \in {} |-> FALSE]]

\* ----------------------------------------------------------- pure helpers

RECURSIVE TrimStart(_)
TrimStart(s) == IF s # << >> /\ Head(s) = " " THEN TrimStart(Tail(s)) ELSE s

RECURSIVE TrimEnd(_)
TrimEnd(s) ==
    IF s # << >> /\ s[Len(s)] = " " THEN TrimEnd(SubSeq(s, 1, Len(s) - 1)) ELSE s

\* Without the trim: the name as typed.
TrimNot(s) == s

\* String.prototype.trim on the characters of the model.
Trim(s) == TrimEnd(TrimStart(s))

\* habitInputs.filter(habit => habit.trim() !== ''), keeping the order.
RECURSIVE validHabits(_)
validHabits(inputs) ==
    IF inputs = << >> THEN << >>
    ELSE IF Trim(Head(inputs)) # << >>
         THEN <<Head(inputs)>> \o validHabits(Tail(inputs))
         ELSE validHabits(Tail(inputs))

\* DAYS.indexOf(day), zero-based.
DayIndex(day) == (CHOOSE i \in 1..Len(DAYS) : DAYS[i] = day) - 1

\* getDay() of a day number: 0 is Sunday.
GetDay(n) == n % 7

\* The Monday of the week of Today.
getCurrentWeekStart == Today - (IF GetDay(Today) = 0 THEN 6 ELSE GetDay(Today) - 1)

\* new Date(weekStart); setDate(getDate() + dayIndex); toISOString().split('T')[0]
DateOf(weekStart, dayIndex) == weekStart + dayIndex

\* tracker[habitId]?.[day] || false
Cell(t, habitId, day) ==
    IF habitId \in DOMAIN t /\ day \in DOMAIN t[habitId] THEN t[habitId][day] ELSE FALSE

\* With the value taken from the tracker at the time of the update instead of
\* the click: { ...prev, [habitId]: { ...prev[habitId], [day]: !prev[habitId]?.[day] } }
SetCellFlip(prev, habitId, day, newValue) ==
    LET old == IF habitId \in DOMAIN prev THEN prev[habitId] ELSE [d \in {} |-> FALSE]
        was == IF day \in DOMAIN old THEN old[day] ELSE FALSE
        row == [d \in (DOMAIN old) \cup {day} |-> IF d = day THEN ~was ELSE old[d]]
    IN  [h \in (DOMAIN prev) \cup {habitId} |-> IF h = habitId THEN row ELSE prev[h]]

\* Without the inner spread: { ...prev, [habitId]: { [day]: newValue } }
SetCellNoSpread(prev, habitId, day, newValue) ==
    [h \in (DOMAIN prev) \cup {habitId} |->
        IF h = habitId THEN [d \in {day} |-> newValue] ELSE prev[h]]

\* { ...prev, [habitId]: { ...prev[habitId], [day]: newValue } }
SetCell(prev, habitId, day, newValue) ==
    LET old == IF habitId \in DOMAIN prev THEN prev[habitId] ELSE [d \in {} |-> FALSE]
        row == [d \in (DOMAIN old) \cup {day} |-> IF d = day THEN newValue ELSE old[d]]
    IN  [h \in (DOMAIN prev) \cup {habitId} |-> IF h = habitId THEN row ELSE prev[h]]

\* The rows of a set of habit rows ordered by created_at (identifiers are handed
\* out in creation order).
RECURSIVE OrderByCreatedAt(_)
OrderByCreatedAt(S) ==
    IF S = {} THEN << >>
    ELSE LET first == CHOOSE r \in S : \A q \in S : r.id <= q.id
         IN  <<first>> \o OrderByCreatedAt(S \ {first})

\* The tracker loadHabitEntries builds from the rows the store returned.
NewTracker(userHabits, weekStart, entriesData) ==
    [h \in {userHabits[i].id : i \in 1..Len(userHabits)} |->
        [d \in {DAYS[i] : i \in 1..Len(DAYS)} |->
            \E e \in entriesData :
                /\ e.habit_id = h
                /\ e.date = DateOf(weekStart, DayIndex(d))
                /\ e.completed]]

\* Math.round of the quotient num / den of two naturals, den > 0: the nearest
\* integer, a half rounded up.
MathRound(num, den) == (2 * num + den) \div (2 * den)

\* DAYS.reduce((daySum, day) => daySum + (tracker[habit.id]?.[day] ? 1 : 0), 0)
RECURSIVE DaySum(_, _, _)
DaySum(t, habitId, days) ==
    IF days = << >> THEN 0
    ELSE (IF Cell(t, habitId, Head(days)) THEN 1 ELSE 0) + DaySum(t, habitId, Tail(days))

\* habits.reduce((sum, habit) => sum + ..., 0)
RECURSIVE HabitSum(_, _)
HabitSum(t, hs) ==
    IF hs = << >> THEN 0
    ELSE DaySum(t, Head(hs).id, DAYS) + HabitSum(t, Tail(hs))

\* Summing over the keys of the tracker instead of the habits of the list.
RECURSIVE KeySum(_, _)
KeySum(t, keys) ==
    IF keys = {} THEN 0
    ELSE LET k == CHOOSE k \in keys : TRUE
         IN  DaySum(t, k, DAYS) + KeySum(t, keys \ {k})

\* ------------------------------------------------------------------ state

VARIABLES
    session,        \* the auth provider's session: the signed-in user or NoUser
    dbHabits,       \* the rows of table habits
    dbEntries,      \* the rows of table habit_entries
    batches,        \* batches of habit rows inserted so far (the id generator)
    user,           \* useState<User | null>(null)
    loading,        \* useState(true)
    isOnboarding,   \* useState(true)
    habits,         \* useState<Habit[]>([])
    tracker,        \* useState<HabitTracker>({})
    weekStartDate,  \* useState('')
    habitInputs,    \* useState(['', '', '', '', ''])
    tasks,          \* the requests in flight, with their handlers' closures
    faulted,        \* history: the store has failed a call it could have applied
    raced           \* history: a toggle has shared its time with another request

remote == <<session, dbHabits, dbEntries, batches>>
client == <<user, loading, isOnboarding, habits, tracker, weekStartDate, habitInputs>>
vars == <<session, dbHabits, dbEntries, batches, user, loading, isOnboarding,
          habits, tracker, weekStartDate, habitInputs, tasks, faulted,
          raced>>

\* The branch of the render function that is taken.
View ==
    IF loading THEN "Loading"
    ELSE IF user = NoUser THEN "Unauthenticated"
    ELSE IF isOnboarding THEN "Onboarding"
    ELSE "Tracking"

\* The `user` loadHabitEntries reads when loadUserHabits calls it.  loadUserHabits
\* is memoized with useCallback(..., []) and the effect that uses it runs once, so
\* the loadHabitEntries it closes over is the one of the first render, where
\* `user` is the initial null: the filter is .eq('user_id', undefined).
LoadEntriesUser == NoUser

\* getWeeklyProgress: the percentage the tracking view shows.
totalPossible == Len(habits) * 7

totalCompletedAnyKey == KeySum(tracker, DOMAIN tracker)

totalCompleted == HabitSum(tracker, habits)

getWeeklyProgress ==
    IF totalPossible > 0 THEN MathRound(totalCompleted * 100, totalPossible) ELSE 0

\* ------------------------------------------------------- requests in flight

One(t) == SetToBag({t})

InFlight == BagCardinality(tasks)

\* A reset is no longer the only request of its time once another is issued
\* (solo: history kept in the request).
NotSolo(t) == IF t.op = "reset" THEN [t EXCEPT !.solo = FALSE] ELSE t

Issue(B, t) == BagOfAll(NotSolo, B) (+) One(t)

Replace(B, t, u) == (B (-) One(t)) (+) One(u)

Requests == BagToSet(tasks)

\* A toggle is in flight.
ToggleInFlight == \E t \in Requests : t.op = "toggle"

\* The store answers a request it could apply either way: it applies it, or it
\* fails (the network, the service) and reports an error with nothing applied.
Outcomes(applicable) == IF applicable THEN {"ok", "err"} ELSE {"err"}

\* ------------------------------------------------------------------ Init

\* The component as constructed in a browser with no session, over empty tables:
\* the effect has called checkAuth, which awaits getUser.
Init ==
    /\ session = NoUser
    /\ dbHabits = {}
    /\ dbEntries = {}
    /\ batches = 0
    /\ user = NoUser
    /\ loading = TRUE
    /\ isOnboarding = TRUE
    /\ habits = << >>
    /\ tracker = EmptyTracker
    /\ weekStartDate = NoDate
    /\ habitInputs = BlankInputs
    /\ tasks = One([op |-> "getUser", phase |-> "req"])
    /\ faulted = FALSE
    /\ raced = FALSE

\* ------------------------------------------------ mount, auth, sign in/out

\* The page is loaded again: the component is constructed anew, and the
\* continuations of the old page never run.  The user reloads once the writes of
\* the old page have reached the store.
Reload ==
    /\ \A t \in Requests : t.op \in {"getUser", "selectHabits", "selectEntries"}
    /\ user' = NoUser
    /\ loading' = TRUE
    /\ isOnboarding' = TRUE
    /\ habits' = << >>
    /\ tracker' = EmptyTracker
    /\ weekStartDate' = NoDate
    /\ habitInputs' = BlankInputs
    /\ tasks' = One([op |-> "getUser", phase |-> "req"])
    /\ UNCHANGED <<remote, faulted, raced>>

\* loadUserHabits(userId) up to its first await: the select on habits is sent.
\* origin is the caller, which decides what follows the load.
SelectHabits(origin) ==
    [op |-> "selectHabits", phase |-> "req", origin |-> origin, data |-> << >>]

\* checkAuth after `await supabase.auth.getUser()`.
checkAuth ==
    \E t \in Requests :
        /\ t.op = "getUser"
        /\ user' = session
        /\ IF session # NoUser
           THEN /\ tasks' = Replace(tasks, t, SelectHabits("checkAuth"))
                /\ loading' = loading
           ELSE /\ tasks' = tasks (-) One(t)
                /\ loading' = FALSE
        /\ UNCHANGED <<remote, isOnboarding, habits, tracker, weekStartDate,
                       habitInputs, faulted, raced>>

\* The onAuthStateChange callback, called with the session `s`.
AuthCallback(s) ==
    /\ user' = s
    /\ IF s # NoUser
       THEN /\ InFlight < MaxInFlight
            /\ tasks' = Issue(tasks, SelectHabits("event"))
            /\ UNCHANGED <<habits, tracker, isOnboarding>>
       ELSE /\ habits' = << >>
            /\ tracker' = EmptyTracker
            /\ isOnboarding' = TRUE
            /\ tasks' = tasks
    /\ raced' = (raced \/ ToggleInFlight)
    /\ UNCHANGED <<loading, weekStartDate, habitInputs>>

\* The provider notifies the subscriber of the current session (the initial
\* session after subscribing, a refreshed token, the tab regaining focus).
AuthEvent ==
    /\ AuthCallback(session)
    /\ UNCHANGED <<remote, faulted>>

\* The Auth component, shown in the unauthenticated view, signs the user in; the
\* provider notifies the subscriber.
SignIn ==
    /\ View = "Unauthenticated"
    /\ session = NoUser
    /\ session' = U1
    /\ AuthCallback(U1)
    /\ UNCHANGED <<dbHabits, dbEntries, batches, faulted>>

\* signOut: the provider ends the session and notifies the subscriber; nothing
\* follows the await.
signOut ==
    /\ View \in {"Onboarding", "Tracking"}
    /\ session' = NoUser
    /\ AuthCallback(NoUser)
    /\ UNCHANGED <<dbHabits, dbEntries, batches, faulted>>

\* ------------------------------------------------------------ loadUserHabits

\* The finally of checkAuth, reached when the load it awaits has ended.
LoadingAfter(origin) == IF origin = "checkAuth" THEN FALSE ELSE loading

\* The store answers the select on habits with the user's rows by created_at.
StoreSelectHabits(t) ==
    /\ t.op = "selectHabits" /\ t.phase = "req"
    /\ tasks' = Replace(tasks, t,
           [t EXCEPT !.phase = "resp",
                     !.data = OrderByCreatedAt({r \in dbHabits : r.user_id = U1})])
    /\ UNCHANGED <<remote, client, faulted, raced>>

\* The select on habits fails: if (habitsError) throw habitsError, caught and
\* logged.
loadUserHabitsError(t) ==
    /\ t.op = "selectHabits" /\ t.phase = "req"
    /\ tasks' = tasks (-) One(t)
    /\ loading' = LoadingAfter(t.origin)
    /\ faulted' = TRUE
    /\ raced' = raced
    /\ UNCHANGED <<remote, user, isOnboarding, habits, tracker, weekStartDate,
                   habitInputs>>

\* loadHabitEntries(userHabits, weekStart) up to its await: the select on
\* habit_entries is sent, filtered by the user of its closure and the week.
SelectEntries(userHabits, weekStart, origin) ==
    [op |-> "selectEntries", phase |-> "req", origin |-> origin,
     userHabits |-> userHabits, weekStart |-> weekStart,
     userId |-> LoadEntriesUser, weekEnd |-> DateOf(weekStart, 6)]

\* loadUserHabits after the select on habits has returned rows.
loadUserHabits(t) ==
    /\ t.op = "selectHabits" /\ t.phase = "resp"
    /\ IF Len(t.data) > 0
       THEN /\ habits' = t.data
            /\ isOnboarding' = FALSE
            /\ weekStartDate' = getCurrentWeekStart
            /\ tasks' = Replace(tasks, t,
                            SelectEntries(t.data, getCurrentWeekStart, t.origin))
            /\ loading' = loading
       ELSE /\ isOnboarding' = TRUE
            /\ weekStartDate' = getCurrentWeekStart
            /\ tasks' = tasks (-) One(t)
            /\ loading' = LoadingAfter(t.origin)
            /\ habits' = habits
    /\ UNCHANGED <<remote, user, tracker, habitInputs, faulted, raced>>

\* The rows the select on habit_entries returns.
StoreSelectEntries(t) ==
    {e \in dbEntries : /\ e.user_id = t.userId
                       /\ e.date >= t.weekStart
                       /\ e.date <= t.weekEnd}

\* loadHabitEntries after the select on habit_entries: the store has answered with
\* rows or with an error (if (error) throw error, caught and logged).  An error
\* for the filter user_id = undefined is no failure of the store's own: the store
\* refuses the literal for the uuid column, or it matches no row with it.
loadHabitEntries(t) ==
    /\ t.op = "selectEntries"
    /\ \E res \in {"ok", "err"} :
        /\ tracker' = IF res = "err" THEN tracker
                      ELSE NewTracker(t.userHabits, t.weekStart, StoreSelectEntries(t))
        /\ faulted' = (faulted \/ (res = "err" /\ t.userId # NoUser))
    /\ tasks' = tasks (-) One(t)
    /\ loading' = LoadingAfter(t.origin)
    /\ UNCHANGED <<remote, user, isOnboarding, habits, weekStartDate, habitInputs,
                   raced>>

\* -------------------------------------------------------------- onboarding

\* onChange of name input `index` (1..5) with the value `value`.
ChangeInput(index, value) ==
    /\ View = "Onboarding"
    /\ habitInputs' = [habitInputs EXCEPT ![index] = value]
    /\ UNCHANGED <<remote, user, loading, isOnboarding, habits, tracker,
                   weekStartDate, tasks, faulted, raced>>

\* habitsToInsert: validHabits.map(name => ({user_id, name: name.trim()}))
habitsToInsert(valid, userId) ==
    [i \in 1..Len(valid) |-> [user_id |-> userId, name |-> Trim(valid[i])]]

InsertsSent ==
    LET ins == {t \in Requests : t.op = "insertHabits"}
    IN  BagCardinality([t \in ins |-> CopiesIn(t, tasks)])

\* validHabits.length === 5
Submits(valid) == Len(valid) = NumHabits

\* handleOnboardingSubmit up to its await: with five names the insert is sent,
\* with fewer nothing happens.
handleOnboardingSubmit ==
    /\ View = "Onboarding"
    /\ user # NoUser
    /\ IF Submits(validHabits(habitInputs))
       THEN /\ InFlight < MaxInFlight
            /\ batches + InsertsSent < MaxBatches
            /\ tasks' = Issue(tasks,
                   [op |-> "insertHabits", phase |-> "req", inputs |-> habitInputs,
                    rows |-> habitsToInsert(validHabits(habitInputs), user)])
            /\ raced' = (raced \/ ToggleInFlight)
       ELSE UNCHANGED <<tasks, raced>>
    /\ UNCHANGED <<remote, client, faulted>>

\* The rows the store makes of a batch insert: every row gets the next
\* identifier, in the order given.
StoreInsertHabits(t) ==
    [i \in 1..Len(t.rows) |->
        [id |-> batches * NumHabits + i,
         user_id |-> t.rows[i].user_id,
         name |-> t.rows[i].name]]

\* handleOnboardingSubmit after the insert: the store has inserted the batch and
\* returned its rows, or has refused it (if (error) throw error, caught: logged,
\* alert).
handleOnboardingSubmitResume(t) ==
    /\ t.op = "insertHabits"
    /\ tasks' = tasks (-) One(t)
    /\ \E res \in Outcomes(TRUE) :
        /\ faulted' = (faulted \/ res = "err")
        /\ IF res = "ok"
           THEN LET newHabits == StoreInsertHabits(t)
                IN  /\ dbHabits' = dbHabits \cup {newHabits[i] : i \in 1..Len(newHabits)}
                    /\ batches' = batches + 1
                    /\ habits' = newHabits
                    /\ tracker' = EmptyTracker
                    /\ weekStartDate' = getCurrentWeekStart
                    /\ isOnboarding' = FALSE
           ELSE UNCHANGED <<dbHabits, batches, habits, tracker, weekStartDate,
                            isOnboarding>>
    /\ UNCHANGED <<session, dbEntries, user, loading, habitInputs, raced>>

\* ------------------------------------------------------------- toggleHabit

\* toggleHabit(habitId, day) up to its await, for the habit in row `row` of the
\* grid: the delete or the insert is sent.
toggleHabit(row, day) ==
    /\ View = "Tracking"
    /\ user # NoUser
    /\ row \in 1..Len(habits)
    /\ InFlight < MaxInFlight
    /\ LET habitId == habits[row].id
           dateStr == DateOf(weekStartDate, DayIndex(day))
           currentValue == Cell(tracker, habitId, day)
           t == [op |-> "toggle", phase |-> "req",
                 habitId |-> habitId, userId |-> user, day |-> day,
                 dateStr |-> dateStr, currentValue |-> currentValue,
                 newValue |-> ~currentValue]
       IN  tasks' = Issue(tasks, t)
    /\ raced' = (raced \/ InFlight > 0)
    /\ UNCHANGED <<remote, client, faulted>>

\* The rows the delete of a toggle matches.
ToggleMatch(t) ==
    {e \in dbEntries : /\ e.habit_id = t.habitId
                       /\ e.user_id = t.userId
                       /\ e.date = t.dateStr}

\* The store takes the insert of a toggle: the habit exists (the foreign key) and
\* no row of that habit, user and date does (the unique constraint).
InsertAccepted(t) ==
    /\ \E r \in dbHabits : r.id = t.habitId
    /\ ToggleMatch(t) = {}

\* habit_entries after the store has applied the delete or the insert of a toggle.
StoreToggle(t) ==
    IF t.currentValue THEN dbEntries \ ToggleMatch(t)
    ELSE dbEntries \cup {[habit_id |-> t.habitId, user_id |-> t.userId,
                          date |-> t.dateStr, completed |-> TRUE]}

\* The cell is flipped when the awaited call has resolved: its `error` is not read.
Flips(res) == TRUE

\* toggleHabit after the delete or the insert: the store has applied the call or
\* has answered with an error.
toggleHabitResume(t) ==
    /\ t.op = "toggle"
    /\ tasks' = tasks (-) One(t)
    /\ LET applicable == t.currentValue \/ InsertAccepted(t)
       IN  \E res \in Outcomes(applicable) :
            /\ dbEntries' = IF res = "ok" THEN StoreToggle(t) ELSE dbEntries
            /\ tracker' = IF Flips(res)
                          THEN SetCell(tracker, t.habitId, t.day, t.newValue)
                          ELSE tracker
            /\ faulted' = (faulted \/ (applicable /\ res = "err"))
    /\ UNCHANGED <<session, dbHabits, batches, user, loading, isOnboarding, habits,
                   weekStartDate, habitInputs, raced>>

\* --------------------------------------------------------------- resetWeek

\* resetWeek up to its first await: the delete on habit_entries is sent.
resetWeek ==
    /\ View = "Tracking"
    /\ user # NoUser
    /\ InFlight < MaxInFlight
    /\ tasks' = Issue(tasks,
           [op |-> "reset", phase |-> "req", table |-> "habit_entries", step |-> 1,
            userId |-> user, solo |-> (InFlight = 0)])
    /\ raced' = (raced \/ ToggleInFlight)
    /\ UNCHANGED <<remote, client, faulted>>

\* The second delete goes to habit_entries again.
SecondDeleteSame == "habit_entries"

\* The table of resetWeek's second delete.
SecondDelete == "habits"

\* The two tables after the store has applied a delete of resetWeek: all rows of
\* the user in the table are gone; deleting a habit deletes its entries (ON
\* DELETE CASCADE).
StoreReset(t) ==
    IF t.table = "habit_entries"
    THEN <<dbHabits, {e \in dbEntries : e.user_id # t.userId}>>
    ELSE LET gone == {r \in dbHabits : r.user_id = t.userId}
         IN  <<dbHabits \ gone,
               {e \in dbEntries : \A r \in gone : e.habit_id # r.id}>>

\* resetWeek after a delete (the store has applied it or has answered with an
\* error; `error` is not read): after the first the second is sent, after the
\* second the state is set back.
resetWeekResume(t) ==
    /\ t.op = "reset"
    /\ \E res \in Outcomes(TRUE) :
        /\ dbHabits' = IF res = "ok" THEN StoreReset(t)[1] ELSE dbHabits
        /\ dbEntries' = IF res = "ok" THEN StoreReset(t)[2] ELSE dbEntries
        /\ faulted' = (faulted \/ res = "err")
        /\ IF t.step = 1
           THEN /\ tasks' = Replace(tasks, t,
                       [t EXCEPT !.table = SecondDelete, !.step = 2])
                /\ UNCHANGED <<isOnboarding, habits, tracker, habitInputs>>
           ELSE /\ tasks' = tasks (-) One(t)
                /\ isOnboarding' = TRUE
                /\ habits' = << >>
                /\ tracker' = EmptyTracker
                /\ habitInputs' = BlankInputs
    /\ UNCHANGED <<session, batches, user, loading, weekStartDate, raced>>

\* ------------------------------------------------------------------- Next

Next ==
    \/ Reload
    \/ checkAuth
    \/ AuthEvent
    \/ SignIn
    \/ signOut
    \/ \E e \in Edits :
        \* the user fills the inputs from the first to the last
        /\ IF e[1] = 1 THEN TRUE ELSE habitInputs[e[1] - 1] # << >>
        /\ ChangeInput(e[1], e[2])
    \/ handleOnboardingSubmit
    \/ \E row \in ToggleRows, day \in ToggleDays : toggleHabit(row, day)
    \/ resetWeek
    \/ \E t \in Requests : StoreSelectHabits(t)
    \/ \E t \in Requests : loadUserHabitsError(t)
    \/ \E t \in Requests : loadUserHabits(t)
    \/ \E t \in Requests : loadHabitEntries(t)
    \/ \E t \in Requests : handleOnboardingSubmitResume(t)
    \/ \E t \in Requests : toggleHabitResume(t)
    \/ \E t \in Requests : resetWeekResume(t)

Spec == Init /\ [][Next]_vars

\* ------------------------------------------- the tracking view over any grid

DaySet == {DAYS[i] : i \in 1..Len(DAYS)}

\* The habit rows of the batches `bs`, as the store numbers them.
BatchRows(bs) ==
    {[id |-> (b - 1) * NumHabits + i, user_id |-> U1, name |-> <<"a">>] :
        b \in bs, i \in 1..NumHabits}

\* Rows of the tracker: as a load builds them (seven days, the first n true), and
\* as toggles build them (the first n days only, all true).
GridRows ==
    {[d \in DaySet |-> DayIndex(d) < n] : n \in 0..Len(DAYS)}
    \cup {[d \in {DAYS[i] : i \in 1..n} |-> TRUE] : n \in 1..Len(DAYS) - 1}

\* The component in the hands of a signed-in user, no request in flight: the
\* store holds some of the batches, the habit list is the one a load gives, and
\* the tracker has the keys of some batches (of the list or not), the first key
\* with one row and the others with another; habit_entries holds the completed
\* cells of the habits the store has.
InitGrid ==
    /\ session = U1
    /\ user = U1
    /\ loading = FALSE
    /\ weekStartDate = getCurrentWeekStart
    /\ habitInputs = BlankInputs
    /\ tasks = EmptyBag
    /\ faulted = FALSE
    /\ raced = FALSE
    /\ \E stored \in SUBSET (1..MaxBatches) :
        /\ dbHabits = BatchRows(stored)
        /\ batches = IF stored = {} THEN 0
                     ELSE CHOOSE b \in stored : \A c \in stored : c <= b
    /\ habits = OrderByCreatedAt(dbHabits)
    /\ isOnboarding = (habits = << >>)
    /\ \E keyed \in SUBSET (1..MaxBatches), first \in GridRows, rest \in GridRows :
        LET keys == {r.id : r \in BatchRows(keyed)}
        IN  tracker = [h \in keys |->
                         IF \A k \in keys : h <= k THEN first ELSE rest]
    /\ dbEntries =
         {[habit_id |-> x[1].id, user_id |-> U1,
           date |-> DateOf(getCurrentWeekStart, DayIndex(x[2])), completed |-> TRUE] :
             x \in {y \in dbHabits \X DaySet : Cell(tracker, y[1].id, y[2])}}

\* The user toggles cells of the grid.
NextGrid ==
    \/ \E row \in ToggleRows, day \in ToggleDays : toggleHabit(row, day)
    \/ \E t \in Requests : toggleHabitResume(t)

GridSpec == InitGrid /\ [][NextGrid]_vars

\* ============================================================== properties

\* The request `t` ends in this step: its handler has run to its end.
Ends(t) == tasks' = tasks (-) One(t)

\* The request `t` is sent in this step.
Sent(t) == CopiesIn(t, tasks') > CopiesIn(t, tasks)

\* The completed entry rows of the user for a habit and a date.
Completed(E, habitId, date) ==
    {e \in E : e.habit_id = habitId /\ e.user_id = U1 /\ e.date = date /\ e.completed}

\* The rows of the user in a table.
RowsOfUser(T) == {r \in T : r.user_id = U1}

\* A name without the white space around it, by position: the characters from
\* the first to the last that is not a space.
Stripped(s) ==
    LET ks == {k \in 1..Len(s) : s[k] # " "}
    IN  IF ks = {} THEN << >>
        ELSE SubSeq(s, CHOOSE k \in ks : \A j \in ks : k <= j,
                       CHOOSE k \in ks : \A j \in ks : k >= j)

\* ---------------------------------------------------------------------- C1

\* C1: in a run in which the store has failed no call of its own and every
\* toggle was sent and resolved with no other request in flight, a toggle on a
\* habit the store holds changes the number of completed rows of its (habit,
\* date) from zero to one or from one to zero; from a cell with no row, an odd
\* number of toggles leaves exactly one row and an even number leaves none.
C1_TogglePairing ==
    [][\A t \in Requests :
        (/\ t.op = "toggle"
         /\ Ends(t)
         /\ ~raced
         /\ ~faulted'
         /\ \E r \in dbHabits : r.id = t.habitId)
        => Cardinality(Completed(dbEntries', t.habitId, t.dateStr))
             = 1 - Cardinality(Completed(dbEntries, t.habitId, t.dateStr))]_vars

\* ---------------------------------------------------------------------- C2

\* C2: handleOnboardingSubmit sends an insert only when each of the five inputs
\* has a character that is not white space, and then it sends five rows of the
\* user named by the inputs without the white space around them; with fewer than
\* five such names no insert is sent.  When the store takes the insert, the
\* table grows by exactly these five rows, the habit list holds them in order,
\* and onboarding is over; when the store refuses it, no row is inserted and the
\* onboarding flag, the habit list and the tracker stay as they were.
C2_CreateHabits ==
    [][/\ \A t \in BagToSet(tasks') :
            (t.op = "insertHabits" /\ Sent(t))
            => /\ \A i \in 1..NumHabits : Stripped(habitInputs[i]) # << >>
               /\ Len(t.rows) = NumHabits
               /\ \A i \in 1..NumHabits :
                    t.rows[i] = [user_id |-> user, name |-> Stripped(habitInputs[i])]
               /\ user = U1
       /\ \A t \in Requests :
            (t.op = "insertHabits" /\ Ends(t) /\ dbHabits' # dbHabits)
            => /\ dbHabits \subseteq dbHabits'
               /\ Cardinality(dbHabits' \ dbHabits) = NumHabits
               /\ Len(habits') = NumHabits
               /\ {habits'[i] : i \in 1..NumHabits} = dbHabits' \ dbHabits
               /\ \A i \in 1..NumHabits :
                    /\ habits'[i].user_id = U1
                    /\ habits'[i].name = Stripped(t.inputs[i])
               /\ isOnboarding' = FALSE
       /\ \A t \in Requests :
            (t.op = "insertHabits" /\ Ends(t) /\ dbHabits' = dbHabits)
            => UNCHANGED <<isOnboarding, habits, tracker>>]_vars

\* Five habits created from inputs of which the last was typed with white space
\* around the name: the tracking view over the five rows, the name stored bare.
C2_Created ==
    /\ View = "Tracking"
    /\ Len(habits) = NumHabits
    /\ {habits[i] : i \in 1..NumHabits} = dbHabits
    /\ habitInputs[NumHabits] = <<" ", "b", " ">>
    /\ habits[NumHabits].name = <<"b">>
    /\ tracker = EmptyTracker

\* ---------------------------------------------------------------------- C3

\* C3: resetWeek ends after its second delete, the one on habits (the first is
\* on habit_entries), with the onboarding flag set, the habit list empty, the
\* tracker empty and the five inputs blank.  When no other request was in flight
\* during the reset and the store has failed no call of its own, no row of the
\* user is left in habits or in habit_entries.
C3_ResetWeek ==
    [][\A t \in Requests :
        (t.op = "reset" /\ Ends(t))
        => /\ t.step = 2
           /\ t.table = "habits"
           /\ isOnboarding' = TRUE
           /\ habits' = << >>
           /\ tracker' = EmptyTracker
           /\ habitInputs' = BlankInputs
           /\ (t.solo /\ ~faulted')
              => /\ RowsOfUser(dbHabits') = {}
                 /\ RowsOfUser(dbEntries') = {}]_vars

\* After a reset of five habits: rows were created and none is left; the
\* onboarding view with blank inputs.
C3_AfterReset ==
    /\ batches >= 1
    /\ dbHabits = {}
    /\ dbEntries = {}
    /\ View = "Onboarding"
    /\ habits = << >>
    /\ tracker = EmptyTracker
    /\ habitInputs = BlankInputs
    /\ tasks = EmptyBag
    /\ ~faulted

\* ---------------------------------------------------------------------- C4

\* C4: the table habits holds no row or exactly five rows of the user.
C4_ZeroOrFive == Cardinality(RowsOfUser(dbHabits)) \in {0, NumHabits}

\* ---------------------------------------------------------------------- C5

\* C5: when the insert or the delete of a toggle fails (the insert adds no row;
\* the delete leaves the rows it matches), the tracker is left as it was.
C5_ToggleFailureKeepsTracker ==
    [][\A t \in Requests :
        (/\ t.op = "toggle"
         /\ Ends(t)
         /\ dbEntries' = dbEntries
         /\ t.currentValue => ToggleMatch(t) # {})
        => tracker' = tracker]_vars

\* ---------------------------------------------------------------------- C6

\* The tracker maps every habit key it has to day names, each to a boolean.
TrackerCells(tr) ==
    \A h \in DOMAIN tr :
        /\ DOMAIN tr[h] \subseteq DaySet
        /\ \A d \in DOMAIN tr[h] : tr[h][d] \in BOOLEAN

\* C6 as stated: with a user signed in and onboarding over, the tracker has
\* exactly five habit keys, each with exactly the seven day keys, each a boolean.
C6_TrackerShape ==
    (user # NoUser /\ ~isOnboarding)
    => /\ Cardinality(DOMAIN tracker) = NumHabits
       /\ \A h \in DOMAIN tracker :
            /\ DOMAIN tracker[h] = DaySet
            /\ \A d \in DaySet : tracker[h][d] \in BOOLEAN

\* C6 amended: the tracker maps every habit key it has to day names among the
\* seven, each to a boolean.  Right after createHabits it has no habit key.  A
\* toggle adds the key of its habit and of its day to the keys the tracker had,
\* sets that cell to the negation of the value read at the click, and keeps
\* every other cell.
C6_TrackerCells ==
    [][/\ TrackerCells(tracker')
       /\ \A t \in Requests :
            (t.op = "insertHabits" /\ Ends(t) /\ dbHabits' # dbHabits)
            => DOMAIN tracker' = {}
       /\ \A t \in Requests :
            (t.op = "toggle" /\ Ends(t))
            => /\ DOMAIN tracker' = (DOMAIN tracker) \cup {t.habitId}
               /\ DOMAIN tracker'[t.habitId] =
                    (IF t.habitId \in DOMAIN tracker
                     THEN DOMAIN tracker[t.habitId] ELSE {}) \cup {t.day}
               /\ tracker'[t.habitId][t.day] = ~t.currentValue
               /\ \A h \in DOMAIN tracker : \A d \in DOMAIN tracker[h] :
                    (h # t.habitId \/ d # t.day) => tracker'[h][d] = tracker[h][d]]_vars

\* Onboarding is over and one cell has been toggled since createHabits: the
\* tracker has one habit key, with one day key.
C6_OneCell ==
    /\ View = "Tracking"
    /\ Len(habits) = NumHabits
    /\ DOMAIN tracker = {habits[1].id}
    /\ DOMAIN tracker[habits[1].id] = {"Monday"}
    /\ tracker[habits[1].id]["Monday"] = TRUE

\* ---------------------------------------------------------------------- C7

\* C7: when a load for the signed-in user ends with a tracker row of seven days
\* for every loaded habit, in a run in which the store has failed no call of its
\* own and no toggle has shared its time with another request, every cell of a
\* loaded habit is true exactly when the store holds a completed row of the user
\* for that habit and the date of that day.
C7_LoadMatchesStore ==
    [][\A t \in Requests :
        (/\ t.op = "selectEntries"
         /\ Ends(t)
         /\ ~faulted'
         /\ ~raced
         /\ user = U1
         /\ \A i \in 1..Len(t.userHabits) :
                /\ t.userHabits[i].id \in DOMAIN tracker'
                /\ DOMAIN tracker'[t.userHabits[i].id] = DaySet)
        => \A i \in 1..Len(t.userHabits) : \A d \in DaySet :
            tracker'[t.userHabits[i].id][d]
              = (Completed(dbEntries, t.userHabits[i].id,
                           DateOf(t.weekStart, DayIndex(d))) # {})]_vars

\* ---------------------------------------------------------------------- C8

\* C8: with loading finished, the view is Unauthenticated with no user; with a
\* user it is Onboarding exactly when the habit list is empty and Tracking
\* exactly when it is not.
C8_ViewByHabitCount ==
    ~loading
    => IF user = NoUser THEN View = "Unauthenticated"
       ELSE /\ (View = "Onboarding") <=> (habits = << >>)
            /\ (View = "Tracking") <=> (habits # << >>)

\* ---------------------------------------------------------------------- C9

\* C9: a step from the Tracking view to the Onboarding view is the end of a
\* resetWeek.
C9_OnlyResetLeavesTracking ==
    [][(View = "Tracking" /\ View' = "Onboarding")
       => \E t \in Requests : t.op = "reset" /\ Ends(t)]_vars

\* --------------------------------------------------------------------- C10

\* C10: when the user signs out and the sign-out event has been handled, the
\* habit list is empty, the tracker is empty, the onboarding flag is set and the
\* five inputs are blank.
C10_SignOutClears ==
    [][(session # NoUser /\ session' = NoUser)
       => /\ habits' = << >>
          /\ tracker' = EmptyTracker
          /\ isOnboarding' = TRUE
          /\ habitInputs' = BlankInputs]_vars

\* --------------------------------------------------------------------- C11

\* The cells of the grid (a habit of the list, a day) that read as completed.
CompletedCells ==
    {x \in (1..Len(habits)) \X DaySet : Cell(tracker, habits[x[1]].id, x[2])}

\* C11: the weekly progress is a whole number from 0 to 100, also when the
\* tracker has keys of habits that are not in the habit list; it is 0 when the
\* habit list is empty; otherwise it is the whole number nearest to
\* 100 * completed cells / (habits * 7), a half going up.
C11_WeeklyProgress ==
    LET r == getWeeklyProgress
        c == Cardinality(CompletedCells)
        p == Len(habits) * 7
    IN  /\ r \in 0..100
        /\ (habits = << >>) => r = 0
        /\ (habits # << >>)
           => /\ 2 * r * p - 200 * c <= p
              /\ 200 * c - 2 * r * p < p

\* The grid of five habits with completed cells, beside a tracker key of a
\* habit that is not in the list and has completed cells of its own; the
\* progress is that of the five habits.
C11_StaleKeys ==
    /\ Len(habits) = NumHabits
    /\ \E h \in DOMAIN tracker :
        /\ \A i \in 1..Len(habits) : habits[i].id # h
        /\ \E d \in DOMAIN tracker[h] : tracker[h][d]
    /\ Cardinality(CompletedCells) = 12
    /\ getWeeklyProgress = 34

\* --------------------------------------------------------------------- C12

\* The store fails, in this step, the call of the toggle `t` on its own: it had
\* a row to insert or rows to delete and habit_entries is as it was.
ToggleFault(t) ==
    /\ dbEntries' = dbEntries
    /\ IF t.currentValue THEN ToggleMatch(t) # {} ELSE InsertAccepted(t)

C13_ResetFailureKeepsState ==
    [][\A t \in Requests :
        (/\ t.op = "reset"
         /\ t.solo
         /\ ~faulted
         /\ Ends(t)
         /\ RowsOfUser(dbHabits) # {}
         /\ dbHabits' = dbHabits)
        => UNCHANGED <<habits, tracker, isOnboarding, habitInputs>>]_vars

====
